---- MODULE Spec2Model ----
(***************************************************************************)
(* Asynchronous job tracking of flash-story-lab: the check-clips-status    *)
(* edge function (one reconciliation pass over projects.clips) and the     *)
(* client polling loop startPollingClipStatus that invokes it.             *)
(***************************************************************************)
EXTENDS Integers, FiniteSets, Sequences, TLC

\* ------------------------------------------------------------------ bounds
NumJobs == 2        \* job handles that may be keys of projects.clips
MaxWaitTicks == 2   \* documented polling budget, in polling intervals
MaxAttempts == 3    \* largest maxAttempts a waitForFrames call is given
MaxRetries == 3     \* largest maxRetries a retryWithBackoff call is given
NumProjects == 2    \* projects created through one modal
MaxDuration == 4    \* largest maxDuration an AudioRecorder is given, in seconds

Jobs == 1..NumJobs
Callers == {"a", "b"}   \* independent invocations of check-clips-status

\* ----------------------------------------------------------- string values
Pending == "pending"
Failed == "failed"
VideoUrl == "https://cdn/x.mp4"     \* artifact delivered in the videoURL field
OutputUrl == "https://cdn/y.mp4"    \* artifact delivered in the outputURL field
Undefined == "undefined"    \* a field that is absent / null in JavaScript

\* JavaScript truthiness of a string-or-undefined field
Truthy(v) == v \notin {Undefined, ""}

\* a || b
OrElse(a, b) == IF Truthy(a) THEN a ELSE b

\* currentValue.startsWith("http")
StartsWithHttp(v) == v \in {VideoUrl, OutputUrl}

EmptyMap == [j \in {} |-> Pending]

\* ------------------------------------------------ provider (Runware) replies
TaskResult(st, v, o, e) == [status |-> st, videoURL |-> v, outputURL |-> o, error |-> e]

HttpResponse(ok, body) == [ok |-> ok, body |-> body]

RespProcessing == HttpResponse(TRUE, <<TaskResult("processing", Undefined, Undefined, Undefined)>>)
RespCompleted == HttpResponse(TRUE, <<TaskResult("completed", VideoUrl, Undefined, Undefined)>>)
RespCompletedOutput == HttpResponse(TRUE, <<TaskResult("completed", Undefined, OutputUrl, Undefined)>>)
RespCompletedNoUrl == HttpResponse(TRUE, <<TaskResult("completed", Undefined, Undefined, Undefined)>>)
RespFailed == HttpResponse(TRUE, <<TaskResult("failed", Undefined, Undefined, "render failed")>>)
RespNotOk == HttpResponse(FALSE, <<>>)

\* the replies a getTaskStatus request can receive
Responses ==
    {RespProcessing, RespCompleted, RespCompletedOutput, RespCompletedNoUrl, RespFailed, RespNotOk}

\* ------------------------------------------------------------ checkJobStatus
Thrown(msg) == [threw |-> TRUE, status |-> "error", videoUrl |-> Undefined, error |-> msg]

Returned(st, v, e) == [threw |-> FALSE, status |-> st, videoUrl |-> v, error |-> e]

checkJobStatus(response) ==
    IF ~response.ok THEN Thrown("Runware API error")
    ELSE IF Len(response.body) = 0 THEN Thrown("Invalid response from Runware API")
    ELSE LET taskResult == response.body[1] IN
         IF taskResult.status = "completed"
         THEN Returned("completed", OrElse(taskResult.videoURL, taskResult.outputURL), Undefined)
         ELSE IF taskResult.status = "failed" \/ taskResult.status = "error"
         THEN Returned("failed", Undefined, OrElse(taskResult.error, "Unknown error"))
         ELSE Returned("pending", Undefined, Undefined)

\* ------------------------------------------------------- statusChecks entry
\* seq records the rank in which the status checks of a pass settled (0 for
\* a skipped job); the handler has no such field
Result(st, v, e, ap) ==
    [status |-> st, videoUrl |-> v, error |-> e, alreadyProcessed |-> ap, seq |-> 0]

\* promise of a status check that has not resolved yet
NoResult == Result("none", Undefined, Undefined, FALSE)

\* variant: only values carrying a URL are skipped
AlreadyProcessedUrlOnly(currentValue) == StartsWithHttp(currentValue)

\* the "skip" test of the statusChecks callback
AlreadyProcessed(currentValue) == StartsWithHttp(currentValue) \/ currentValue = Failed

\* variant: the skipped job's URL is not carried into its result
SkippedResultNoUrl(currentValue) ==
    Result(IF StartsWithHttp(currentValue) THEN "completed" ELSE "failed",
           Undefined, Undefined, TRUE)

\* result of the callback for a job that is skipped
SkippedResult(currentValue) ==
    Result(IF StartsWithHttp(currentValue) THEN "completed" ELSE "failed",
           IF StartsWithHttp(currentValue) THEN currentValue ELSE Undefined,
           Undefined, TRUE)

\* variant: a check that threw is reported as already processed
ProbedResultThrownProcessed(response) ==
    LET s == checkJobStatus(response) IN
    IF s.threw THEN Result("error", Undefined, s.error, TRUE)
    ELSE Result(s.status, s.videoUrl, s.error, FALSE)

\* result of the callback for a job that is probed, once the reply is in
ProbedResult(response) ==
    LET s == checkJobStatus(response) IN
    IF s.threw THEN Result("error", Undefined, s.error, FALSE)
    ELSE Result(s.status, s.videoUrl, s.error, FALSE)

\* ------------------------------------------------------------- merge loop
\* variant: a check that threw is stored like a failed job
MergeValueErrorFails(result) ==
    IF result.status = "completed" /\ Truthy(result.videoUrl) THEN result.videoUrl
    ELSE IF result.status = "failed" \/ result.status = "error" THEN Failed
    ELSE Pending

MergeValue(result) ==
    IF result.status = "completed" /\ Truthy(result.videoUrl) THEN result.videoUrl
    ELSE IF result.status = "failed" THEN Failed
    ELSE Pending

\* variant: jobs that are still pending are left out of the map
updatedClipsTerminalOnly(results) ==
    [j \in {k \in DOMAIN results : MergeValue(results[k]) # Pending} |-> MergeValue(results[j])]

updatedClips(results) == [j \in DOMAIN results |-> MergeValue(results[j])]

\* variant: only a new completion counts as an update
hasUpdatesCompletedOnly(results) ==
    \E j \in DOMAIN results :
        /\ results[j].status = "completed" /\ Truthy(results[j].videoUrl)
        /\ ~results[j].alreadyProcessed

\* variant: alreadyProcessed is not consulted
hasUpdatesAnyTerminal(results) ==
    \E j \in DOMAIN results :
        \/ results[j].status = "completed" /\ Truthy(results[j].videoUrl)
        \/ results[j].status = "failed"

\* variant: only the status check that settled first is consulted
hasUpdatesFirstSettled(results) ==
    \E j \in DOMAIN results :
        /\ results[j].seq = 1
        /\ \/ results[j].status = "completed" /\ Truthy(results[j].videoUrl)
           \/ results[j].status = "failed"

hasUpdates(results) ==
    \E j \in DOMAIN results :
        /\ \/ results[j].status = "completed" /\ Truthy(results[j].videoUrl)
           \/ results[j].status = "failed"
        /\ ~results[j].alreadyProcessed

\* variant: the first settled check is enough (Promise.race)
AnySettled(results) == \E j \in DOMAIN results : results[j] # NoResult

\* Promise.all(statusChecks) has resolved
AllSettled(results) == \A j \in DOMAIN results : results[j] # NoResult

\* status checks of the pass that have settled so far
SettledChecks(results) == Cardinality({j \in DOMAIN results : results[j].seq > 0})

CountStatus(results, sts) == Cardinality({j \in DOMAIN results : results[j].status \in sts})

\* ------------------------------------------------------------- responses
SuccessResponse(results) ==
    [success |-> TRUE, httpStatus |-> 200, error |-> Undefined,
     total_clips |-> Cardinality(DOMAIN results),
     completed |-> CountStatus(results, {"completed"}),
     pending |-> CountStatus(results, {"pending"}),
     failed |-> CountStatus(results, {"failed", "error"}),
     clips |-> updatedClips(results)]

ErrorResponse(msg) ==
    [success |-> FALSE, httpStatus |-> 400, error |-> msg,
     total_clips |-> 0, completed |-> 0, pending |-> 0, failed |-> 0,
     clips |-> EmptyMap]

NoResponse == ErrorResponse("none")

\* ------------------------------------------------------------ generate-clips
NoId == 0   \* a taskUUID / id field that is absent

\* a || b on handles
IdOrElse(a, b) == IF a # NoId THEN a ELSE b

SdkResult(t, i, v, o, st) == [taskUUID |-> t, id |-> i, videoURL |-> v, outputURL |-> o, status |-> st]

SdkReply(threw, body) == [threw |-> threw, body |-> body]

\* what runware.videoInference can give for the unit whose handle is k
SdkReplies(k) ==
    { SdkReply(TRUE, <<>>),
      SdkReply(FALSE, <<>>),
      SdkReply(FALSE, <<SdkResult(NoId, NoId, Undefined, Undefined, Undefined)>>),
      SdkReply(FALSE, <<SdkResult(k, NoId, Undefined, Undefined, Undefined)>>),
      SdkReply(FALSE, <<SdkResult(NoId, k, Undefined, Undefined, "processing")>>),
      SdkReply(FALSE, <<SdkResult(k, NoId, VideoUrl, Undefined, "completed")>>),
      SdkReply(FALSE, <<SdkResult(k, NoId, Undefined, OutputUrl, "completed")>>) }

NoSdkReply == SdkReply(FALSE, <<SdkResult(NoId, NoId, Undefined, Undefined, "unsent")>>)

Initiated(threw, t, v, st, e) == [threw |-> threw, taskUUID |-> t, videoURL |-> v, status |-> st, error |-> e]

initiateVideoGeneration(reply) ==
    IF reply.threw THEN Initiated(TRUE, NoId, Undefined, Undefined, "videoInference failed")
    ELSE IF Len(reply.body) = 0
    THEN Initiated(TRUE, NoId, Undefined, Undefined, "Invalid response from Runware SDK")
    ELSE LET result == reply.body[1]
             taskUUID == IdOrElse(result.taskUUID, result.id)
         IN IF taskUUID = NoId
            THEN Initiated(TRUE, NoId, Undefined, Undefined, "No taskUUID in response")
            ELSE Initiated(FALSE, taskUUID, OrElse(result.videoURL, result.outputURL),
                           OrElse(result.status, "pending"), Undefined)

SceneResult(success, t, v, e) == [success |-> success, taskUUID |-> t, videoURL |-> v, error |-> e]

\* promise of a submission that has not settled yet
NoSubmit == SceneResult(FALSE, NoId, Undefined, "unsettled")

\* variant: a failed submission is still tagged success
videoPromiseAlwaysSuccess(reply) ==
    LET videoResult == initiateVideoGeneration(reply) IN
    SceneResult(TRUE, videoResult.taskUUID, videoResult.videoURL,
                IF videoResult.threw THEN videoResult.error ELSE Undefined)

\* value returned by the videoPromises callback of one scene
videoPromise(reply) ==
    LET videoResult == initiateVideoGeneration(reply) IN
    IF videoResult.threw THEN SceneResult(FALSE, NoId, Undefined, videoResult.error)
    ELSE SceneResult(TRUE, videoResult.taskUUID, videoResult.videoURL, Undefined)

Extend(m, h, v) == [j \in DOMAIN m \cup {h} |-> IF j = h THEN v ELSE m[j]]

\* variant: a unit whose submission threw is entered as "failed" under its scene key
clipsAfterMarksFailed(m, k, r) ==
    IF ~r.success THEN Extend(m, k, Failed)
    ELSE Extend(m, r.taskUUID, IF Truthy(r.videoURL) THEN r.videoURL ELSE Pending)

\* the callback's assignment to the shared clips object (scene k, result r)
clipsAfter(m, k, r) ==
    IF ~r.success THEN m
    ELSE Extend(m, r.taskUUID, IF Truthy(r.videoURL) THEN r.videoURL ELSE Pending)

\* variant: the first settled submission is enough
AnySubmitted(out) == \E k \in DOMAIN out : out[k] # NoSubmit

\* Promise.all(videoPromises) has resolved
AllSubmitted(out) == \A k \in DOMAIN out : out[k] # NoSubmit

completedCount(results) == Cardinality({k \in DOMAIN results : results[k].success /\ Truthy(results[k].videoURL)})

\* variant: r.success is not consulted
pendingCountAnyOutcome(results) == Cardinality({k \in DOMAIN results : ~Truthy(results[k].videoURL)})

pendingCount(results) == Cardinality({k \in DOMAIN results : results[k].success /\ ~Truthy(results[k].videoURL)})

failedCount(results) == Cardinality({k \in DOMAIN results : ~results[k].success})

\* variant: failed submissions are not consulted
allCompleteIgnoresFailed(results) == pendingCount(results) = 0

allComplete(results) == pendingCount(results) = 0 /\ failedCount(results) = 0

GenSuccess(results, m) ==
    [success |-> TRUE, httpStatus |-> 200, error |-> Undefined,
     total_clips |-> Cardinality({k \in DOMAIN results : results[k].success}),
     completed |-> completedCount(results),
     pending |-> pendingCount(results),
     failed |-> failedCount(results),
     all_complete |-> allComplete(results),
     clips |-> m, results |-> results]

GenError(msg) ==
    [success |-> FALSE, httpStatus |-> 400, error |-> msg,
     total_clips |-> 0, completed |-> 0, pending |-> 0, failed |-> 0,
     all_complete |-> FALSE, clips |-> EmptyMap, results |-> EmptyMap]

\* variant: updateError is not looked at
genResponseIgnoresUpdateError(results, m, updateOk) == GenSuccess(results, m)

\* response after the store update
genResponse(results, m, updateOk) ==
    IF updateOk THEN GenSuccess(results, m) ELSE GenError("Failed to update project")

\* variant: the frames column is not validated
genValidationNoFramesCheck(hasProjectId, fetchOk, framesPresent, scenesPresent, apiKeySet, initOk) ==
    IF ~hasProjectId THEN "project_id is required"
    ELSE IF ~fetchOk THEN "Failed to fetch project"
    ELSE IF ~scenesPresent THEN "scenes are missing from project"
    ELSE IF ~apiKeySet THEN "RUNWARE_API_KEY environment variable is not set"
    ELSE IF ~initOk THEN "Runware.initialize failed"
    ELSE Undefined

\* the error thrown before the batch starts, if any
genValidation(hasProjectId, fetchOk, framesPresent, scenesPresent, apiKeySet, initOk) ==
    IF ~hasProjectId THEN "project_id is required"
    ELSE IF ~fetchOk THEN "Failed to fetch project"
    ELSE IF ~framesPresent THEN "frames are missing from project"
    ELSE IF ~scenesPresent THEN "scenes are missing from project"
    ELSE IF ~apiKeySet THEN "RUNWARE_API_KEY environment variable is not set"
    ELSE IF ~initOk THEN "Runware.initialize failed"
    ELSE Undefined

\* variant: disconnect sits at the end of the try block, not in finally
disconnectCallsNoFinally(updateOk) == IF updateOk THEN 1 ELSE 0

\* calls of runware.disconnect made by the finally block
disconnectCalls(updateOk) == 1

\* ----------------------------------------------------------- generate-frames
ImageUrl == "https://im.runware.ai/a.png"   \* URL of a generated image
FrameUrl == "https://store/images/f.png"    \* public URL after the upload

FrameUrls(first, last) == [first_frame |-> first, last_frame |-> last]

NoFrameEntries == [k \in {} |-> FrameUrls("", "")]

\* the keys of an object in Object.entries order (integer keys ascending)
RECURSIVE KeysInOrder(_)
KeysInOrder(S) ==
    IF S = {} THEN <<>>
    ELSE LET k == CHOOSE x \in S : \A y \in S : x <= y
         IN <<k>> \o KeysInOrder(S \ {k})

FrameJob(sceneKey, frameType) ==
    [sceneKey |-> sceneKey, frameType |-> frameType, status |-> "pending",
     imageURL |-> Undefined, error |-> Undefined, upload |-> "none"]

\* jobs.push of a first and a last frame job per scene
RECURSIVE createJobs(_)
createJobs(keys) ==
    IF keys = <<>> THEN <<>>
    ELSE <<FrameJob(Head(keys), "first"), FrameJob(Head(keys), "last")>> \o createJobs(Tail(keys))

Image(imageURL, url) == [imageURL |-> imageURL, url |-> url]

ImagesReply(threw, body) == [threw |-> threw, body |-> body]

\* what runware.requestImages can give
ImagesReplies ==
    { ImagesReply(TRUE, <<>>),
      ImagesReply(FALSE, <<>>),
      ImagesReply(FALSE, <<Image(Undefined, Undefined)>>),
      ImagesReply(FALSE, <<Image(ImageUrl, Undefined)>>),
      ImagesReply(FALSE, <<Image(Undefined, ImageUrl)>>) }

\* the body of the submit loop for one job
submitJob(job, reply) ==
    IF reply.threw
    THEN [job EXCEPT !.status = "failed", !.error = "requestImages failed"]
    ELSE IF Len(reply.body) > 0
    THEN LET firstImage == reply.body[1]
             imageURL == OrElse(firstImage.imageURL, firstImage.url)
         IN IF Truthy(imageURL)
            THEN [job EXCEPT !.imageURL = imageURL, !.status = "completed"]
            ELSE [job EXCEPT !.status = "failed", !.error = "No image URL field found in response"]
    ELSE [job EXCEPT !.status = "failed", !.error = "Empty or invalid response from Runware SDK"]

\* downloadAndUploadFrame: the public URL, or Undefined when it throws
downloadAndUploadFrame(downloadOk, uploadOk) ==
    IF ~downloadOk THEN Undefined
    ELSE IF ~uploadOk THEN Undefined
    ELSE FrameUrl

\* frames[job.sceneKey] after the frame of the job was uploaded
framesAfter(fr, job, frameUrl) ==
    LET entry == IF job.sceneKey \in DOMAIN fr THEN fr[job.sceneKey] ELSE FrameUrls("", "")
        updated == IF job.frameType = "first"
                   THEN [entry EXCEPT !.first_frame = frameUrl]
                   ELSE [entry EXCEPT !.last_frame = frameUrl]
    IN [k \in DOMAIN fr \cup {job.sceneKey} |-> IF k = job.sceneKey THEN updated ELSE fr[k]]

\* index of the next job the upload loop processes, 0 when there is none
NextCompleted(jobs, pos) ==
    LET todo == {i \in pos..Len(jobs) : jobs[i].status = "completed" /\ Truthy(jobs[i].imageURL)}
    IN IF todo = {} THEN 0 ELSE CHOOSE i \in todo : \A j \in todo : i <= j

failedJobs(jobs) == {i \in 1..Len(jobs) : jobs[i].status = "failed"}

completedJobs(jobs) == {i \in 1..Len(jobs) : jobs[i].status = "completed"}

FramesSuccess(fr, sceneCount) ==
    [success |-> TRUE, httpStatus |-> 200, error |-> Undefined, frames |-> fr,
     scenes_processed |-> sceneCount, frames_generated |-> sceneCount * 2,
     total_jobs |-> 0, completed |-> 0, failed |-> 0]

FramesFailure(jobs) ==
    [success |-> FALSE, httpStatus |-> 400, error |-> "Failed to generate frames",
     frames |-> NoFrameEntries, scenes_processed |-> 0, frames_generated |-> 0,
     total_jobs |-> Len(jobs), completed |-> Cardinality(completedJobs(jobs)),
     failed |-> Cardinality(failedJobs(jobs))]

FramesError(msg) ==
    [success |-> FALSE, httpStatus |-> 400, error |-> msg,
     frames |-> NoFrameEntries, scenes_processed |-> 0, frames_generated |-> 0,
     total_jobs |-> 0, completed |-> 0, failed |-> 0]

\* the response once both loops are over
framesResponse(jobs, fr, sceneCount) ==
    IF failedJobs(jobs) # {} THEN FramesFailure(jobs) ELSE FramesSuccess(fr, sceneCount)

\* the error thrown before the jobs are created, if any
framesValidation(hasProjectId, fetchOk, scenesPresent, apiKeySet, initOk) ==
    IF ~hasProjectId THEN "project_id is required"
    ELSE IF ~fetchOk THEN "Failed to fetch project"
    ELSE IF ~scenesPresent THEN "scenes are missing from project"
    ELSE IF ~apiKeySet THEN "RUNWARE_API_KEY environment variable is not set"
    ELSE IF ~initOk THEN "Runware.initialize failed"
    ELSE Undefined

\* ------------------------------------------------------------ waitForFrames
\* the row a select("frames, scenes") returns, or the error of the read
ProjectRow(error, fr, scenesPresent, sceneKeys) ==
    [error |-> error, frames |-> fr, scenesPresent |-> scenesPresent, sceneKeys |-> sceneKeys]

FrameEntries ==
    {FrameUrls(first, last) : first \in {"", FrameUrl}, last \in {"", FrameUrl}}

\* values the frames column can hold: null or an object of frame entries
FrameColumns ==
    {[present |-> FALSE, entries |-> NoFrameEntries]} \cup
    {[present |-> TRUE, entries |-> e] : e \in UNION {[S -> FrameEntries] : S \in SUBSET Jobs}}

ProjectRows ==
    {ProjectRow(error, fr, scenesPresent, sceneKeys) :
        error \in BOOLEAN, fr \in FrameColumns, scenesPresent \in BOOLEAN,
        sceneKeys \in SUBSET Jobs}

NoRow == ProjectRow(FALSE, [present |-> FALSE, entries |-> NoFrameEntries], FALSE, {})

\* isComplete of one frame entry
isComplete(frameData) == Truthy(frameData.first_frame) /\ Truthy(frameData.last_frame)

\* variant: the number of scenes is not compared
allFramesReadyAnyCount(project) ==
    /\ project.frames.present
    /\ LET frameKeys == DOMAIN project.frames.entries
       IN /\ Cardinality(frameKeys) > 0
          /\ \A key \in frameKeys : isComplete(project.frames.entries[key])

\* the test of one poll of waitForFrames that makes it return true
allFramesReady(project) ==
    /\ project.frames.present
    /\ LET frameKeys == DOMAIN project.frames.entries
           sceneKeys == IF project.scenesPresent THEN project.sceneKeys ELSE {}
       IN /\ Cardinality(frameKeys) = Cardinality(sceneKeys)
          /\ Cardinality(frameKeys) > 0
          /\ \A key \in frameKeys : isComplete(project.frames.entries[key])

\* --------------------------------------------------------- retryWithBackoff
DefaultBaseDelayMs == 1000

BaseDelays == {0, DefaultBaseDelayMs}

\* what one call of fn settles with: a value, or a thrown error
FnOutcome(ok, v) == [ok |-> ok, v |-> v]

FnOutcomes ==
    {FnOutcome(TRUE, v) : v \in {"scenes A", "scenes B"}} \cup
    {FnOutcome(FALSE, e) : e \in {"rate limit", "bad JSON", "empty reply"}}

\* variant: the same delay after every failed attempt
backoffDelayConstant(baseDelayMs, attempt) == baseDelayMs

\* baseDelayMs * Math.pow(2, attempt)
backoffDelay(baseDelayMs, attempt) == baseDelayMs * 2 ^ attempt

\* variant: the first error is the one kept
caughtErrorFirstKept(lastError, error) == IF lastError = Undefined THEN error ELSE lastError

\* lastError = error
caughtError(lastError, error) == error

\* ------------------------------------------------- handleCreate: the stages
\* what supabase.functions.invoke meets: a transport failure, or a response
\* with its HTTP status, with or without a body, and the body's success field
StageReply(transport, httpStatus, body, success) ==
    [transport |-> transport, httpStatus |-> httpStatus, body |-> body, success |-> success]

\* transcribe-audio answers 200, 400 or 500
TranscribeReplies ==
    { StageReply("error", 0, FALSE, FALSE),
      StageReply("ok", 400, TRUE, FALSE),
      StageReply("ok", 500, TRUE, FALSE),
      StageReply("ok", 200, TRUE, TRUE) }

\* transcript-to-scenes answers 200 or 400
ScenesReplies ==
    { StageReply("error", 0, FALSE, FALSE),
      StageReply("ok", 400, TRUE, FALSE),
      StageReply("ok", 200, TRUE, TRUE) }

\* generate-frames answers 200 or 400; a 200 whose body is empty or says
\* success false is what the client also guards against
FramesReplies ==
    { StageReply("error", 0, FALSE, FALSE),
      StageReply("ok", 400, TRUE, FALSE),
      StageReply("ok", 200, FALSE, FALSE),
      StageReply("ok", 200, TRUE, FALSE),
      StageReply("ok", 200, TRUE, TRUE) }

\* the error of { data, error } = await supabase.functions.invoke(...)
invokeError(reply) == reply.transport = "error" \/ reply.httpStatus # 200

\* variant: only the invoke error is looked at
framesInvokeFailedErrorOnly(reply) == invokeError(reply)

\* framesError, or !framesData || framesData.success === false
framesInvokeFailed(reply) == invokeError(reply) \/ ~reply.body \/ ~reply.success

\* -------------------------------------------------------------------- state
VARIABLES
    clips,      \* projects.clips of the project: job handle -> value
    provider,   \* reply of the provider per job while its state is frozen
    pass,       \* per caller: the check-clips-status invocation
    prev,       \* response of the caller's previous invocation
    loop,       \* startPollingClipStatus closure: active flag and position
    now,        \* polling intervals elapsed since the loop started
    gen,        \* the generate-clips invocation
    probe,      \* one checkJobStatus call: provider reply and outcome
    frames,     \* projects.frames of the project
    genf,       \* the generate-frames invocation
    wait,       \* one waitForFrames call
    create,     \* handleCreate: the stage the pipeline is at
    retry,      \* one retryWithBackoff call
    modal,      \* one CreateVideoModal: pollingCleanupRef and the loops it started
    recorder    \* one AudioRecorder: React state, refs and the media recorder

vars == <<clips, provider, pass, prev, loop, now, gen, probe, frames, genf, wait, create, retry, modal, recorder>>

Projects == 1..NumProjects

NoProject == 0    \* pollingCleanupRef.current === null

\* the closure of one startPollingClipStatus call: inflight and timers count
\* the invocations awaited and the setTimeout calls pending; stoppedBy is the
\* caller of the cleanup function, late whether onProgress ran after it
IdlePolling ==
    [started |-> FALSE, active |-> FALSE, inflight |-> 0, timers |-> 0,
     stoppedBy |-> "none", reporter |-> NoProject, late |-> FALSE]

\* creating is the project whose handleCreate is running, created the number
\* of projects made so far
IdleModal ==
    [mounted |-> TRUE, ref |-> NoProject, creating |-> NoProject, created |-> 0,
     loops |-> [p \in Projects |-> IdlePolling]]

\* media is the MediaRecorder's state, timer whether the interval is armed,
\* closure the isRecording the interval's stopRecording was created with,
\* sawMax whether the interval has met prev >= maxDuration in this recording
IdleRecorder ==
    [maxDuration |-> 1, isRecording |-> FALSE, duration |-> 0, media |-> "none",
     timer |-> FALSE, closure |-> FALSE, micPending |-> FALSE, audioUrl |-> FALSE,
     isPlaying |-> FALSE, sawMax |-> FALSE, mounted |-> TRUE]

\* hasProjectId, readEmpty and storeError record what the request met
IdlePass ==
    [pc |-> "idle", snap |-> EmptyMap, calls |-> EmptyMap, res |-> EmptyMap,
     updated |-> EmptyMap, writes |-> 0, resp |-> NoResponse,
     hasProjectId |-> TRUE, readEmpty |-> FALSE, storeError |-> "none"]

NoReport == [completed |-> 0, total |-> 0, allDone |-> FALSE]

IdleLoop == [active |-> FALSE, phase |-> "idle", last |-> "none", report |-> NoReport]

\* input records what the request met; sdk keeps the SDK's reply per unit
IdleGen ==
    [pc |-> "idle",
     input |-> [hasProjectId |-> TRUE, framesPresent |-> TRUE, scenesPresent |-> TRUE],
     units |-> {}, sdk |-> EmptyMap, out |-> EmptyMap, clips |-> EmptyMap,
     inits |-> 0, connected |-> FALSE, submits |-> 0, disconnects |-> 0, writes |-> 0,
     storeError |-> "none", resp |-> GenError("none")]

IdleProbe == [phase |-> "idle", response |-> RespNotOk, out |-> Thrown("none")]

\* the frames column before generate-frames wrote it
NullFrames == [present |-> FALSE, entries |-> NoFrameEntries]

IdleGenf ==
    [pc |-> "idle", scenes |-> {}, jobs |-> <<>>, pos |-> 1, frames |-> NoFrameEntries,
     connected |-> FALSE, disconnects |-> 0, resp |-> FramesError("none")]

\* reads counts the store reads, last is the row of the latest read
IdleWait ==
    [pc |-> "idle", maxAttempts |-> 0, attempt |-> 1, reads |-> 0, result |-> FALSE,
     last |-> NoRow]

\* invoked lists the stages started, replies what the invoked functions answered
IdleCreate == [pc |-> "idle", invoked |-> <<>>, replies |-> <<>>, error |-> Undefined]

\* calls counts the calls of fn, log lists what each call settled with
IdleRetry ==
    [pc |-> "idle", maxRetries |-> 0, baseDelayMs |-> 0, attempt |-> 0, calls |-> 0,
     lastError |-> Undefined, delays |-> <<>>, log |-> <<>>, out |-> Undefined]

\* maps generate-clips can have persisted: "pending" or an immediate URL
InitialMaps == UNION {[S -> {Pending, VideoUrl, OutputUrl}] : S \in SUBSET Jobs}

Init ==
    /\ clips \in InitialMaps
    /\ provider = [j \in Jobs |-> RespProcessing]
    /\ pass = [c \in Callers |-> IdlePass]
    /\ prev = NoResponse
    /\ loop = IdleLoop
    /\ now = 0
    /\ gen = IdleGen
    /\ probe = IdleProbe
    /\ frames = NullFrames
    /\ genf = IdleGenf
    /\ wait = IdleWait
    /\ create = IdleCreate
    /\ retry = IdleRetry
    /\ modal = IdleModal
    /\ recorder = IdleRecorder

\* ------------------------------------------------- check-clips-status handler
\* request parsing, store read and issue of the status checks
Fetch(c, hasProjectId, fetchOk, apiKeySet) ==
    /\ pass[c].pc \in {"idle", "done"}
    /\ pass' = [pass EXCEPT ![c] =
         IF ~hasProjectId
         THEN [IdlePass EXCEPT !.pc = "done", !.hasProjectId = FALSE,
                               !.resp = ErrorResponse("project_id is required")]
         ELSE IF ~fetchOk
         THEN [IdlePass EXCEPT !.pc = "done", !.storeError = "read",
                               !.resp = ErrorResponse("Failed to fetch project")]
         ELSE IF DOMAIN clips = {}
         THEN [IdlePass EXCEPT !.pc = "done", !.readEmpty = TRUE,
                               !.resp = ErrorResponse("No clips found for this project")]
         ELSE IF ~apiKeySet
         THEN [IdlePass EXCEPT !.pc = "done",
                               !.resp = ErrorResponse("RUNWARE_API_KEY environment variable is not set")]
         ELSE [IdlePass EXCEPT
                 !.pc = "probing",
                 !.snap = clips,
                 !.calls = [j \in DOMAIN clips |-> IF AlreadyProcessed(clips[j]) THEN 0 ELSE 1],
                 !.res = [j \in DOMAIN clips |->
                            IF AlreadyProcessed(clips[j]) THEN SkippedResult(clips[j]) ELSE NoResult]]]
    /\ UNCHANGED <<clips, provider, gen, probe, frames, genf, wait, create, retry, modal, recorder>>

\* the provider's reply to the status check of job j arrives
ProbeResolve(c, j, response) ==
    /\ pass[c].pc = "probing"
    /\ j \in DOMAIN pass[c].res
    /\ pass[c].res[j] = NoResult
    /\ pass' = [pass EXCEPT ![c].res[j] =
                    [ProbedResult(response) EXCEPT !.seq = 1 + SettledChecks(pass[c].res)]]
    /\ UNCHANGED <<clips, provider, prev, loop, now, gen, probe, frames, genf, wait, create, retry, modal, recorder>>

\* Promise.all resolved: merge loop, conditional store update, response
Finish(c, updateOk) ==
    /\ pass[c].pc = "probing"
    /\ AllSettled(pass[c].res)
    /\ LET results == pass[c].res
           write == hasUpdates(results)
       IN /\ (~write => updateOk)
          /\ pass' = [pass EXCEPT
                ![c].pc = "done",
                ![c].updated = updatedClips(results),
                ![c].writes = @ + (IF write THEN 1 ELSE 0),
                ![c].storeError = IF write /\ ~updateOk THEN "update" ELSE "none",
                ![c].resp = IF write /\ ~updateOk
                            THEN ErrorResponse("Failed to update project")
                            ELSE SuccessResponse(results)]
          /\ clips' = IF write /\ updateOk THEN updatedClips(results) ELSE clips
    /\ UNCHANGED <<provider, prev, loop, now, gen, probe, frames, genf, wait, create, retry, modal, recorder>>

\* a caller invokes the function by hand
Invoke(c) ==
    /\ \E hasProjectId \in BOOLEAN, fetchOk \in BOOLEAN, apiKeySet \in BOOLEAN :
          Fetch(c, hasProjectId, fetchOk, apiKeySet)
    /\ UNCHANGED <<prev, loop, now>>

Resolve(c) == \E j \in Jobs, r \in Responses : ProbeResolve(c, j, r)

Respond(c) == \E updateOk \in BOOLEAN : Finish(c, updateOk)

\* ---------------------------------------------- one caller, passes in sequence
Next ==
    \/ Invoke("a")
    \/ Resolve("a")
    \/ Respond("a")

Spec == Init /\ [][Next]_vars

\* ------------------------------------------- two callers, passes may overlap
NextRace ==
    \/ \E c \in Callers : Invoke(c)
    \/ \E c \in Callers : Resolve(c)
    \/ \E c \in Callers : Respond(c)

SpecRace == Init /\ [][NextRace]_vars

\* ------------------------- repeated calls while the provider's state is frozen
InitIdem ==
    /\ clips \in InitialMaps
    /\ provider \in [Jobs -> Responses]
    /\ pass = [c \in Callers |-> IdlePass]
    /\ prev = NoResponse
    /\ loop = IdleLoop
    /\ now = 0
    /\ gen = IdleGen
    /\ probe = IdleProbe
    /\ frames = NullFrames
    /\ genf = IdleGenf
    /\ wait = IdleWait
    /\ create = IdleCreate
    /\ retry = IdleRetry
    /\ modal = IdleModal
    /\ recorder = IdleRecorder

\* the next call of the same caller; the previous response is remembered
CallAgain(c) ==
    /\ \E hasProjectId \in BOOLEAN, fetchOk \in BOOLEAN, apiKeySet \in BOOLEAN :
          Fetch(c, hasProjectId, fetchOk, apiKeySet)
    /\ prev' = pass[c].resp
    /\ UNCHANGED <<loop, now>>

ResolveFrozen(c) == \E j \in Jobs : ProbeResolve(c, j, provider[j])

NextIdem ==
    \/ CallAgain("a")
    \/ ResolveFrozen("a")
    \/ Respond("a")

SpecIdem == InitIdem /\ [][NextIdem]_vars

\* ------------------------------------------------- startPollingClipStatus
Tick(t) == IF t < MaxWaitTicks THEN t + 1 ELSE t

\* supabase.functions.invoke("check-clips-status", {project_id}) is sent
PollInvoke(c) == \E fetchOk \in BOOLEAN, apiKeySet \in BOOLEAN : Fetch(c, TRUE, fetchOk, apiKeySet)

\* startPollingClipStatus: active = true and the first poll() at once
startPollingClipStatus(c) ==
    /\ loop.phase = "idle"
    /\ PollInvoke(c)
    /\ loop' = [loop EXCEPT !.active = TRUE, !.phase = "inflight"]
    /\ UNCHANGED <<prev, now>>

\* variant: poll() does not test the active flag on entry
TimerFireNoActiveCheck(c) ==
    /\ loop.phase = "timer"
    /\ now' = Tick(now)
    /\ PollInvoke(c)
    /\ loop' = [loop EXCEPT !.phase = "inflight"]
    /\ UNCHANGED prev

\* setTimeout(poll, intervalMs) expires and poll() runs
TimerFire(c) ==
    /\ loop.phase = "timer"
    /\ now' = Tick(now)
    /\ IF ~loop.active
       THEN /\ loop' = [loop EXCEPT !.phase = "stopped", !.last = "inactive"]
            /\ UNCHANGED <<clips, provider, pass, gen, probe, frames, genf, wait, create, retry, modal, recorder>>
       ELSE /\ PollInvoke(c)
            /\ loop' = [loop EXCEPT !.phase = "inflight"]
    /\ UNCHANGED prev

\* variant: a loop that gives up marks the jobs still pending as failed
PollReturnMarksFailed(c, transport) ==
    /\ loop.phase = "inflight"
    /\ pass[c].pc = "done"
    /\ LET data == pass[c].resp
           allDone == data.pending = 0
           giveUp == transport = "error" \/ (transport = "ok" /\ data.httpStatus # 200)
       IN /\ loop' =
               IF transport = "throw"
               THEN [loop EXCEPT !.last = "threw",
                                 !.phase = IF loop.active THEN "timer" ELSE "stopped"]
               ELSE IF giveUp
               THEN [loop EXCEPT !.last = "error", !.phase = "stopped"]
               ELSE [loop EXCEPT !.last = "reported",
                                 !.report = [completed |-> data.completed,
                                             total |-> data.total_clips,
                                             allDone |-> allDone],
                                 !.phase = IF ~allDone /\ loop.active THEN "timer" ELSE "stopped"]
          /\ clips' = IF giveUp
                      THEN [j \in DOMAIN clips |-> IF clips[j] = Pending THEN Failed ELSE clips[j]]
                      ELSE clips
    /\ UNCHANGED <<provider, pass, prev, now, gen, probe, frames, genf, wait, create, retry, modal, recorder>>

\* the awaited invoke settles: transport is what the client library does
PollReturn(c, transport) ==
    /\ loop.phase = "inflight"
    /\ pass[c].pc = "done"
    /\ LET data == pass[c].resp
           allDone == data.pending = 0
       IN loop' =
            IF transport = "throw"
            THEN [loop EXCEPT !.last = "threw",
                              !.phase = IF loop.active THEN "timer" ELSE "stopped"]
            ELSE IF transport = "error" \/ data.httpStatus # 200
            THEN [loop EXCEPT !.last = "error", !.phase = "stopped"]
            ELSE IF data.success
            THEN [loop EXCEPT !.last = "reported",
                              !.report = [completed |-> data.completed,
                                          total |-> data.total_clips,
                                          allDone |-> allDone],
                              !.phase = IF ~allDone /\ loop.active THEN "timer" ELSE "stopped"]
            ELSE [loop EXCEPT !.last = "unsuccessful", !.phase = "stopped"]
    /\ UNCHANGED <<clips, provider, pass, prev, now, gen, probe, frames, genf, wait, create, retry, modal, recorder>>

\* the cleanup function returned by startPollingClipStatus
Cancel ==
    /\ loop.phase # "idle"
    /\ loop.active
    /\ loop' = [loop EXCEPT !.active = FALSE]
    /\ UNCHANGED <<clips, provider, pass, prev, now, gen, probe, frames, genf, wait, create, retry, modal, recorder>>

Settle(c) == \E transport \in {"ok", "error", "throw"} : PollReturn(c, transport)

NextPoll ==
    \/ startPollingClipStatus("a")
    \/ TimerFire("a")
    \/ Resolve("a")
    \/ Respond("a")
    \/ Settle("a")
    \/ Cancel

SpecPoll == Init /\ [][NextPoll]_vars

\* --------------------------------------------------- generate-clips handler
\* request parsing, store read, validation, Runware.initialize and the issue
\* of one submission per frames entry
GenStart(hasProjectId, fetchOk, framesPresent, frameKeys, scenesPresent, apiKeySet, initOk) ==
    /\ gen.pc = "idle"
    /\ ~framesPresent => frameKeys = {}
    /\ LET err == genValidation(hasProjectId, fetchOk, framesPresent, scenesPresent, apiKeySet, initOk)
           initCalled == genValidation(hasProjectId, fetchOk, framesPresent, scenesPresent, apiKeySet, TRUE) = Undefined
           input == [hasProjectId |-> hasProjectId, framesPresent |-> framesPresent,
                     scenesPresent |-> scenesPresent]
       IN gen' =
            IF err # Undefined
            THEN [IdleGen EXCEPT !.pc = "done", !.input = input,
                                 !.inits = IF initCalled THEN 1 ELSE 0,
                                 !.storeError = IF hasProjectId /\ ~fetchOk THEN "read" ELSE "none",
                                 !.resp = GenError(err)]
            ELSE [IdleGen EXCEPT !.pc = "submitting", !.input = input,
                                 !.inits = 1, !.connected = TRUE,
                                 !.units = frameKeys,
                                 !.submits = Cardinality(frameKeys),
                                 !.sdk = [k \in frameKeys |-> NoSdkReply],
                                 !.out = [k \in frameKeys |-> NoSubmit]]
    /\ UNCHANGED <<clips, provider, pass, prev, loop, now, probe, frames, genf, wait, retry, modal, recorder>>

\* runware.videoInference of scene k settles and its callback finishes
GenSubmitResolve(k, reply) ==
    /\ gen.pc = "submitting"
    /\ k \in gen.units
    /\ gen.out[k] = NoSubmit
    /\ gen' = [gen EXCEPT !.sdk[k] = reply,
                          !.out[k] = videoPromise(reply),
                          !.clips = clipsAfter(gen.clips, k, videoPromise(reply))]
    /\ UNCHANGED <<clips, provider, pass, prev, loop, now, probe, frames, genf, wait, create, retry, modal, recorder>>

\* Promise.all resolved: counts, store update, response, finally disconnect
GenFinish(updateOk) ==
    /\ gen.pc = "submitting"
    /\ AllSubmitted(gen.out)
    /\ gen' = [gen EXCEPT !.pc = "done",
                          !.writes = @ + 1,
                          !.storeError = IF updateOk THEN "none" ELSE "update",
                          !.disconnects = @ + disconnectCalls(updateOk),
                          !.resp = genResponse(gen.out, gen.clips, updateOk)]
    /\ clips' = IF updateOk THEN gen.clips ELSE clips
    /\ UNCHANGED <<provider, pass, prev, loop, now, probe, frames, genf, wait, create, retry, modal, recorder>>

GenCall ==
    \E hasProjectId \in BOOLEAN, fetchOk \in BOOLEAN, framesPresent \in BOOLEAN,
       frameKeys \in SUBSET Jobs, scenesPresent \in BOOLEAN, apiKeySet \in BOOLEAN,
       initOk \in BOOLEAN :
        /\ GenStart(hasProjectId, fetchOk, framesPresent, frameKeys, scenesPresent, apiKeySet, initOk)
        /\ UNCHANGED create

GenSettle == \E k \in Jobs : \E reply \in SdkReplies(k) : GenSubmitResolve(k, reply)

GenRespond == \E updateOk \in BOOLEAN : GenFinish(updateOk)

\* ------------------------- both functions called by hand, one request at a time
\* the caller is done with the response of the finished request
Forget ==
    /\ gen.pc \in {"idle", "done"}
    /\ pass["a"].pc \in {"idle", "done"}
    /\ gen.pc = "done" \/ pass["a"].pc = "done"
    /\ gen' = IdleGen
    /\ pass' = [pass EXCEPT !["a"] = IdlePass]
    /\ UNCHANGED <<clips, provider, prev, loop, now, probe, frames, genf, wait, create, retry, modal, recorder>>

NextFn ==
    \/ pass["a"].pc = "idle" /\ GenCall
    \/ GenSettle
    \/ GenRespond
    \/ gen.pc = "idle" /\ Invoke("a")
    \/ Resolve("a")
    \/ Respond("a")
    \/ Forget

SpecFn == Init /\ [][NextFn]_vars

\* ------------------------------------- handleCreate: submit, then maybe poll
\* a new project has no clips yet
InitCreate ==
    /\ clips = EmptyMap
    /\ provider = [j \in Jobs |-> RespProcessing]
    /\ pass = [c \in Callers |-> IdlePass]
    /\ prev = NoResponse
    /\ loop = IdleLoop
    /\ now = 0
    /\ gen = IdleGen
    /\ probe = IdleProbe
    /\ frames = NullFrames
    /\ genf = IdleGenf
    /\ wait = IdleWait
    /\ create = IdleCreate
    /\ retry = IdleRetry
    /\ modal = IdleModal
    /\ recorder = IdleRecorder

\* variant: the polling loop is started whatever all_complete says
handleCreatePollsAnyway(c, transport) ==
    /\ gen.pc = "done"
    /\ loop.phase = "idle" /\ loop.last = "none"
    /\ IF transport = "error" \/ gen.resp.httpStatus # 200
       THEN /\ loop' = [loop EXCEPT !.last = "clipsError"]
            /\ UNCHANGED <<clips, provider, pass, prev, now, gen, probe, frames, genf, wait, create, retry, modal, recorder>>
       ELSE startPollingClipStatus(c)

\* handleCreate after the generate-clips invoke settled: clipsError throws,
\* all_complete ends the flow, anything else starts the polling loop
handleCreate(c, transport) ==
    /\ gen.pc = "done"
    /\ loop.phase = "idle" /\ loop.last = "none"
    /\ IF transport = "error" \/ gen.resp.httpStatus # 200
       THEN /\ loop' = [loop EXCEPT !.last = "clipsError"]
            /\ UNCHANGED <<clips, provider, pass, prev, now, gen, probe, frames, genf, wait, create, retry, modal, recorder>>
       ELSE IF gen.resp.all_complete
       THEN /\ loop' = [loop EXCEPT !.last = "allComplete"]
            /\ UNCHANGED <<clips, provider, pass, prev, now, gen, probe, frames, genf, wait, create, retry, modal, recorder>>
       ELSE startPollingClipStatus(c)

ClipsInvokeSettles == \E transport \in {"ok", "error"} : handleCreate("a", transport)

\* handleCreate always sends project.id
CreateCall ==
    \E fetchOk \in BOOLEAN, framesPresent \in BOOLEAN, frameKeys \in SUBSET Jobs,
       scenesPresent \in BOOLEAN, apiKeySet \in BOOLEAN, initOk \in BOOLEAN :
        /\ GenStart(TRUE, fetchOk, framesPresent, frameKeys, scenesPresent, apiKeySet, initOk)
        /\ UNCHANGED create

\* the SDK throws, returns a handle alone, or returns a handle with a URL
CreateSdkReplies(k) ==
    { SdkReply(TRUE, <<>>),
      SdkReply(FALSE, <<SdkResult(k, NoId, Undefined, Undefined, Undefined)>>),
      SdkReply(FALSE, <<SdkResult(k, NoId, VideoUrl, Undefined, "completed")>>),
      SdkReply(FALSE, <<SdkResult(k, NoId, Undefined, OutputUrl, "completed")>>) }

CreateSettle == \E k \in Jobs : \E reply \in CreateSdkReplies(k) : GenSubmitResolve(k, reply)

NextCreate ==
    \/ CreateCall
    \/ CreateSettle
    \/ GenRespond
    \/ ClipsInvokeSettles
    \/ TimerFire("a")
    \/ Resolve("a")
    \/ Respond("a")
    \/ Settle("a")
    \/ Cancel

SpecCreate == InitCreate /\ [][NextCreate]_vars

\* ================================================================ properties
IsUrl(v) == v \in {VideoUrl, OutputUrl}

IsTerminal(v) == IsUrl(v) \/ v = Failed

P == pass["a"]

\* the pass of caller c got as far as the merge loop
Merged(c) == pass[c].pc = "done" /\ DOMAIN pass[c].res # {}

\* C1: over passes that do not overlap, a persisted value changes only from
\* "pending" to a URL or to "failed"; a URL or "failed" is never changed and
\* no handle is added or dropped.
C1_Monotonic ==
    [][/\ DOMAIN clips' = DOMAIN clips
       /\ \A j \in DOMAIN clips :
            clips'[j] # clips[j] => clips[j] = Pending /\ IsTerminal(clips'[j])]_vars

\* a pass that read a terminal value and a pending one has written the map
C1_Witness ==
    /\ Merged("a") /\ P.writes = 1 /\ P.resp.success
    /\ \E j \in DOMAIN P.snap : P.snap[j] = Pending /\ IsTerminal(clips[j])
    /\ \E k \in DOMAIN P.snap : IsTerminal(P.snap[k]) /\ clips[k] = P.snap[k]

\* C2: when passes overlap, a value that has become a URL or "failed" in the
\* persisted map is never set back to "pending" by a later write.
C2_NoRevert ==
    [][\A j \in DOMAIN clips : IsTerminal(clips[j]) => clips'[j] # Pending]_vars

\* C3: checkJobStatus is never called for a job whose value in the map read is
\* a URL or "failed", and is called exactly once for every other job.
C3_ProbeOnlyPending ==
    \A c \in Callers : \A j \in DOMAIN pass[c].snap :
        pass[c].calls[j] = IF IsTerminal(pass[c].snap[j]) THEN 0 ELSE 1

\* a pass over a map with a failed job, a completed job or both, and a pending one
C3_Witness ==
    /\ P.pc = "probing"
    /\ \E j \in DOMAIN P.snap : P.snap[j] = Failed /\ P.calls[j] = 0
    /\ \E k \in DOMAIN P.snap : P.snap[k] = Pending /\ P.calls[k] = 1

\* C4: the store update is issued iff some job that was "pending" in the map
\* read ends the pass with another value; when every probed job resolves to
\* pending or to a probe error, no update is issued.
C4_WriteIffChanged ==
    \A c \in Callers : Merged(c) =>
        /\ pass[c].writes = 1 <=>
             \E j \in DOMAIN pass[c].snap :
                pass[c].snap[j] = Pending /\ pass[c].updated[j] # Pending
        /\ (\A j \in DOMAIN pass[c].snap :
                pass[c].calls[j] = 1 => pass[c].res[j].status \in {"pending", "error"})
             => pass[c].writes = 0

\* a pass whose only change is a job that failed issued the update
C4_Witness ==
    /\ Merged("a") /\ P.writes = 1
    /\ \E j \in DOMAIN P.snap : P.snap[j] = Pending /\ P.updated[j] = Failed
    /\ \A j \in DOMAIN P.snap : ~IsUrl(P.updated[j])

\* C5: a pass issues at most one store write, and only after every status
\* check started in the pass has resolved.
C5_OneWriteAfterAll ==
    \A c \in Callers :
        /\ pass[c].writes <= 1
        /\ pass[c].writes >= 1 =>
             \A j \in DOMAIN pass[c].snap : pass[c].res[j] # NoResult

\* one write carried the new values of two jobs
C5_Witness ==
    /\ Merged("a") /\ P.writes = 1
    /\ \E j, k \in DOMAIN P.snap :
         /\ j # k
         /\ P.snap[j] = Pending /\ P.snap[k] = Pending
         /\ P.updated[j] # Pending /\ P.updated[k] # Pending

\* C6: of two successive successful calls with the provider's state unchanged,
\* the second issues no store write, leaves the persisted map as the first
\* call left it and returns the map the first call returned.
C6_Idempotent ==
    (P.pc = "done" /\ P.resp.success /\ prev.success) =>
        /\ P.writes = 0
        /\ P.resp.clips = prev.clips
        /\ clips = prev.clips

\* the second call followed a first call that wrote, with a job still pending
C6_Witness ==
    /\ P.pc = "done" /\ P.resp.success /\ prev.success
    /\ \E j \in DOMAIN clips : IsTerminal(clips[j]) /\ provider[j] \in {RespCompleted, RespFailed}
    /\ \E k \in DOMAIN clips : clips[k] = Pending /\ P.calls[k] = 1

\* C7: a job whose status check threw stays "pending" in the returned and in
\* the persisted map, and every other job is still probed and merged by its
\* own result.
SpecValue(result) ==
    CASE result.status = "completed" /\ IsUrl(result.videoUrl) -> result.videoUrl
      [] result.status = "failed" -> Failed
      [] OTHER -> Pending

C7_ProbeErrorIsolated ==
    Merged("a") =>
        \A j \in DOMAIN P.res : P.res[j].status = "error" =>
            /\ P.updated[j] = Pending
            /\ clips[j] = Pending
            /\ P.resp.success => P.resp.clips[j] = Pending
            /\ \A k \in DOMAIN P.res \ {j} :
                 /\ P.res[k] # NoResult
                 /\ P.calls[k] = IF IsTerminal(P.snap[k]) THEN 0 ELSE 1
                 /\ P.updated[k] = SpecValue(P.res[k])
                 /\ P.res[k].alreadyProcessed => P.updated[k] = P.snap[k]

\* one check threw while a sibling completed and was written
C7_Witness ==
    /\ Merged("a") /\ P.writes = 1 /\ P.resp.success
    /\ \E j, k \in DOMAIN P.res :
         /\ P.res[j].status = "error" /\ clips[j] = Pending
         /\ P.res[k].status = "completed" /\ ~P.res[k].alreadyProcessed /\ IsUrl(clips[k])

\* C8: the loop reports allDone and stops only when no job is "pending" in the
\* persisted map.
C8_AllDoneMeansNonePending ==
    (loop.last = "reported" /\ loop.report.allDone) =>
        \A j \in DOMAIN clips : clips[j] # Pending

\* C9: once the budget has elapsed the loop schedules no further pass.
C9_BudgetBoundsPolling == loop.phase = "timer" => now < MaxWaitTicks

\* C10: while not cancelled the loop stops only after a pass that reported all
\* done or on budget expiry; after any other pass, failed ones included, the
\* next pass is scheduled.
C10_StopsOnlyWhenDone ==
    (loop.phase = "stopped" /\ \E j \in DOMAIN clips : clips[j] = Pending) =>
        \/ ~loop.active
        \/ loop.last = "reported" /\ loop.report.allDone
        \/ now >= MaxWaitTicks

\* C11: once the cancel function has been called the loop starts no new
\* check-clips-status invocation; only one already in flight may complete,
\* and without one the store is neither read nor written.
C11_NoInvocationAfterCancel ==
    [][(~loop.active /\ loop.phase # "idle") =>
          /\ ~loop'.active
          /\ loop'.phase = "inflight" => loop.phase = "inflight"
          /\ loop.phase # "inflight" => pass' = pass /\ clips' = clips]_vars

\* the timer of a cancelled loop expired and poll returned at once
C11_Witness ==
    /\ ~loop.active /\ loop.phase = "stopped" /\ loop.last = "inactive"
    /\ \E j \in DOMAIN clips : clips[j] = Pending

\* C12: the step by which the loop stops for another reason than a report of
\* all done, and every step after it, leaves the persisted map as it is: a
\* pending job stays pending.
C12_StopLeavesStoreAlone ==
    [][(loop'.phase = "stopped" /\ ~(loop'.last = "reported" /\ loop'.report.allDone))
          => clips' = clips]_vars

\* the loop stopped on a request error with a job still pending
C12_Witness ==
    /\ loop.phase = "stopped" /\ loop.last = "error" /\ loop.active
    /\ \E j \in DOMAIN clips : clips[j] = Pending

\* ------------------------------------------------- generate-frames handler
\* request parsing, store read, validation, Runware.initialize, job list
FramesStart(hasProjectId, fetchOk, scenesPresent, sceneKeys, apiKeySet, initOk) ==
    /\ genf.pc = "idle"
    /\ ~scenesPresent => sceneKeys = {}
    /\ LET err == framesValidation(hasProjectId, fetchOk, scenesPresent, apiKeySet, initOk)
           jobs == createJobs(KeysInOrder(sceneKeys))
       IN genf' =
            IF err # Undefined
            THEN [IdleGenf EXCEPT !.pc = "done", !.resp = FramesError(err)]
            ELSE [IdleGenf EXCEPT !.pc = IF jobs = <<>> THEN "uploading" ELSE "submitting",
                                  !.scenes = sceneKeys, !.jobs = jobs, !.connected = TRUE]
    /\ UNCHANGED <<clips, provider, pass, prev, loop, now, gen, probe, frames, wait, create, retry, modal, recorder>>

\* runware.requestImages of the job at pos settles
FramesSubmit(reply) ==
    /\ genf.pc = "submitting"
    /\ genf' = [genf EXCEPT !.jobs[genf.pos] = submitJob(genf.jobs[genf.pos], reply),
                            !.pos = IF genf.pos = Len(genf.jobs) THEN 1 ELSE genf.pos + 1,
                            !.pc = IF genf.pos = Len(genf.jobs) THEN "uploading" ELSE "submitting"]
    /\ UNCHANGED <<clips, provider, pass, prev, loop, now, gen, probe, frames, wait, create, retry, modal, recorder>>

\* the upload loop handles the next completed job: download, upload, and the
\* incremental store update whose result is not looked at
FramesUpload(downloadOk, uploadOk, updateOk) ==
    /\ genf.pc = "uploading"
    /\ LET i == NextCompleted(genf.jobs, genf.pos)
           frameUrl == downloadAndUploadFrame(downloadOk, uploadOk)
       IN /\ i # 0
          /\ IF frameUrl = Undefined
             THEN /\ genf' = [genf EXCEPT !.jobs[i].upload = "threw", !.pos = i + 1]
                  /\ frames' = frames
             ELSE LET fr == framesAfter(genf.frames, genf.jobs[i], frameUrl)
                  IN /\ genf' = [genf EXCEPT !.jobs[i].upload = "ok", !.pos = i + 1, !.frames = fr]
                     /\ frames' = IF updateOk THEN [present |-> TRUE, entries |-> fr] ELSE frames
    /\ UNCHANGED <<clips, provider, pass, prev, loop, now, gen, probe, wait, create, retry, modal, recorder>>

\* both loops are over: failedJobs check, response, finally disconnect
FramesFinish ==
    /\ genf.pc = "uploading"
    /\ NextCompleted(genf.jobs, genf.pos) = 0
    /\ genf' = [genf EXCEPT !.pc = "done",
                            !.disconnects = @ + 1,
                            !.resp = framesResponse(genf.jobs, genf.frames, Cardinality(genf.scenes))]
    /\ UNCHANGED <<clips, provider, pass, prev, loop, now, gen, probe, frames, wait, create, retry, modal, recorder>>

FramesCall ==
    \E hasProjectId \in BOOLEAN, fetchOk \in BOOLEAN, scenesPresent \in BOOLEAN,
       sceneKeys \in SUBSET Jobs, apiKeySet \in BOOLEAN, initOk \in BOOLEAN :
        FramesStart(hasProjectId, fetchOk, scenesPresent, sceneKeys, apiKeySet, initOk)

FramesSubmitSettles == \E reply \in ImagesReplies : FramesSubmit(reply)

FramesUploadSettles ==
    \E downloadOk \in BOOLEAN, uploadOk \in BOOLEAN, updateOk \in BOOLEAN :
        FramesUpload(downloadOk, uploadOk, updateOk)

NextFrames ==
    \/ FramesCall
    \/ FramesSubmitSettles
    \/ FramesUploadSettles
    \/ FramesFinish

\* one generate-frames request on a project whose frames column is null
InitFrames ==
    /\ clips = EmptyMap
    /\ provider = [j \in Jobs |-> RespProcessing]
    /\ pass = [c \in Callers |-> IdlePass]
    /\ prev = NoResponse
    /\ loop = IdleLoop
    /\ now = 0
    /\ gen = IdleGen
    /\ probe = IdleProbe
    /\ frames = NullFrames
    /\ genf = IdleGenf
    /\ wait = IdleWait
    /\ create = IdleCreate
    /\ retry = IdleRetry
    /\ modal = IdleModal
    /\ recorder = IdleRecorder

SpecFrames == InitFrames /\ [][NextFrames]_vars

\* ------------------------------------------------------- waitForFrames
\* waitForFrames(projectId, maxAttempts): the loop is entered or not
WaitStart(maxAttempts) ==
    /\ wait.pc = "idle"
    /\ wait' = IF 1 <= maxAttempts
               THEN [IdleWait EXCEPT !.pc = "reading", !.maxAttempts = maxAttempts]
               ELSE [IdleWait EXCEPT !.pc = "done", !.maxAttempts = maxAttempts]
    /\ UNCHANGED <<clips, provider, pass, prev, loop, now, gen, probe, frames, genf, retry, modal, recorder>>

\* variant: a read that fails is repeated without using up an attempt
WaitReadErrorFree(project) ==
    /\ wait.pc = "reading"
    /\ wait' = IF project.error
               THEN [wait EXCEPT !.reads = @ + 1, !.last = project]
               ELSE IF allFramesReady(project)
               THEN [wait EXCEPT !.reads = @ + 1, !.last = project, !.pc = "done", !.result = TRUE]
               ELSE [wait EXCEPT !.reads = @ + 1, !.last = project, !.pc = "sleeping"]
    /\ UNCHANGED <<clips, provider, pass, prev, loop, now, gen, probe, frames, genf, retry, modal, recorder>>

\* the select of this attempt settles
WaitRead(project) ==
    /\ wait.pc = "reading"
    /\ wait' = IF project.error
               THEN [wait EXCEPT !.reads = @ + 1, !.last = project, !.pc = "sleeping"]
               ELSE IF allFramesReady(project)
               THEN [wait EXCEPT !.reads = @ + 1, !.last = project, !.pc = "done", !.result = TRUE]
               ELSE [wait EXCEPT !.reads = @ + 1, !.last = project, !.pc = "sleeping"]
    /\ UNCHANGED <<clips, provider, pass, prev, loop, now, gen, probe, frames, genf, retry, modal, recorder>>

\* setTimeout(resolve, intervalMs) expires: next attempt, or the loop ends
WaitSleepEnds ==
    /\ wait.pc = "sleeping"
    /\ wait' = IF wait.attempt + 1 <= wait.maxAttempts
               THEN [wait EXCEPT !.attempt = @ + 1, !.pc = "reading"]
               ELSE [wait EXCEPT !.attempt = @ + 1, !.pc = "done", !.result = FALSE]
    /\ UNCHANGED <<clips, provider, pass, prev, loop, now, gen, probe, frames, genf, retry, modal, recorder>>

WaitCall == (\E maxAttempts \in 0..MaxAttempts : WaitStart(maxAttempts)) /\ UNCHANGED create

WaitReadSettles == (\E project \in ProjectRows : WaitRead(project)) /\ UNCHANGED create

WaitTimer == WaitSleepEnds /\ UNCHANGED create

NextWait ==
    \/ WaitCall
    \/ WaitReadSettles
    \/ WaitTimer

SpecWait == InitFrames /\ [][NextWait]_vars

\* ---------------------------------------------------- retryWithBackoff
\* retryWithBackoff(fn, maxRetries, baseDelayMs): the loop is entered, or
\* lastError (null) is thrown at once
RetryStart(maxRetries, baseDelayMs) ==
    /\ retry.pc = "idle"
    /\ retry' = [IdleRetry EXCEPT !.maxRetries = maxRetries, !.baseDelayMs = baseDelayMs,
                                  !.pc = IF 0 < maxRetries THEN "calling" ELSE "thrown"]
    /\ UNCHANGED <<clips, provider, pass, prev, loop, now, gen, probe, frames, genf, wait, create, modal, recorder>>

\* await fn() settles: return its value, or catch its error
RetryFnSettles(outcome) ==
    /\ retry.pc = "calling"
    /\ LET called == [retry EXCEPT !.calls = @ + 1, !.log = Append(@, outcome)]
       IN retry' =
            IF outcome.ok
            THEN [called EXCEPT !.pc = "returned", !.out = outcome.v]
            ELSE IF retry.attempt < retry.maxRetries - 1
            THEN [called EXCEPT !.lastError = caughtError(@, outcome.v),
                                !.delays = Append(@, backoffDelay(retry.baseDelayMs, retry.attempt)),
                                !.pc = "sleeping"]
            ELSE [called EXCEPT !.lastError = caughtError(@, outcome.v),
                                !.attempt = @ + 1,
                                !.pc = "thrown"]
    /\ UNCHANGED <<clips, provider, pass, prev, loop, now, gen, probe, frames, genf, wait, create, modal, recorder>>

\* the backoff delay expires: next attempt
RetrySleepEnds ==
    /\ retry.pc = "sleeping"
    /\ retry' = [retry EXCEPT !.attempt = @ + 1, !.pc = "calling"]
    /\ UNCHANGED <<clips, provider, pass, prev, loop, now, gen, probe, frames, genf, wait, create, modal, recorder>>

RetryCall ==
    \E maxRetries \in 0..MaxRetries, baseDelayMs \in BaseDelays : RetryStart(maxRetries, baseDelayMs)

RetryFnCall == \E outcome \in FnOutcomes : RetryFnSettles(outcome)

NextRetry ==
    \/ RetryCall
    \/ RetryFnCall
    \/ RetrySleepEnds

SpecRetry == InitFrames /\ [][NextRetry]_vars

\* ------------------------------------- handleCreate: the whole pipeline
\* handleCreate up to the first invoke: files present, image upload, audio
\* upload, project insert, then transcribe-audio is invoked
handleCreateBegin(hasFiles, imageOk, audioOk, insertOk) ==
    /\ create.pc = "idle"
    /\ create' = IF ~hasFiles
                 THEN [create EXCEPT !.pc = "returned"]
                 ELSE IF ~imageOk
                 THEN [create EXCEPT !.pc = "failed", !.error = "Image upload failed"]
                 ELSE IF ~audioOk
                 THEN [create EXCEPT !.pc = "failed", !.error = "Audio upload failed"]
                 ELSE IF ~insertOk
                 THEN [create EXCEPT !.pc = "failed", !.error = "Project creation failed"]
                 ELSE [create EXCEPT !.pc = "transcribe", !.invoked = <<"transcribe-audio">>]
    /\ UNCHANGED <<clips, provider, pass, prev, loop, now, gen, probe, frames, genf, wait, retry, modal, recorder>>

\* the transcribe-audio invoke settles; transcript-to-scenes is invoked next
TranscribeSettles(reply) ==
    /\ create.pc = "transcribe"
    /\ create' = IF invokeError(reply)
                 THEN [create EXCEPT !.pc = "failed", !.replies = Append(@, reply),
                                     !.error = "Transcription failed"]
                 ELSE [create EXCEPT !.pc = "scenes", !.replies = Append(@, reply),
                                     !.invoked = Append(@, "transcript-to-scenes")]
    /\ UNCHANGED <<clips, provider, pass, prev, loop, now, gen, probe, frames, genf, wait, retry, modal, recorder>>

\* the transcript-to-scenes invoke settles; generate-frames is invoked next
ScenesSettles(reply) ==
    /\ create.pc = "scenes"
    /\ create' = IF invokeError(reply)
                 THEN [create EXCEPT !.pc = "failed", !.replies = Append(@, reply),
                                     !.error = "Scene generation failed"]
                 ELSE [create EXCEPT !.pc = "frames", !.replies = Append(@, reply),
                                     !.invoked = Append(@, "generate-frames")]
    /\ UNCHANGED <<clips, provider, pass, prev, loop, now, gen, probe, frames, genf, wait, retry, modal, recorder>>

\* the generate-frames invoke settles; waitForFrames(project.id) is called next
FramesInvokeSettles(reply) ==
    /\ create.pc = "frames"
    /\ IF framesInvokeFailed(reply)
       THEN /\ create' = [create EXCEPT !.pc = "failed", !.replies = Append(@, reply),
                                        !.error = "Frame generation failed"]
            /\ UNCHANGED <<clips, provider, pass, prev, loop, now, gen, probe, frames, genf,
                           wait, retry, modal, recorder>>
       ELSE /\ create' = [create EXCEPT !.pc = "wait", !.replies = Append(@, reply),
                                        !.invoked = Append(@, "waitForFrames")]
            /\ WaitStart(MaxAttempts)

\* waitForFrames returned: false throws, true invokes generate-clips
WaitReturns ==
    /\ create.pc = "wait"
    /\ wait.pc = "done"
    /\ IF ~wait.result
       THEN /\ create' = [create EXCEPT !.pc = "failed",
                                        !.error = "Timeout waiting for frames"]
            /\ UNCHANGED <<clips, provider, pass, prev, loop, now, gen, probe, frames, genf,
                           wait, retry, modal, recorder>>
       ELSE /\ create' = [create EXCEPT !.pc = "clips", !.invoked = Append(@, "generate-clips")]
            /\ \E fetchOk \in BOOLEAN, framesPresent \in BOOLEAN, frameKeys \in SUBSET Jobs,
                  scenesPresent \in BOOLEAN, apiKeySet \in BOOLEAN, initOk \in BOOLEAN :
                   GenStart(TRUE, fetchOk, framesPresent, frameKeys, scenesPresent, apiKeySet, initOk)

PipelineBegin ==
    \E hasFiles \in BOOLEAN, imageOk \in BOOLEAN, audioOk \in BOOLEAN, insertOk \in BOOLEAN :
        handleCreateBegin(hasFiles, imageOk, audioOk, insertOk)

TranscribeInvokeSettles == \E reply \in TranscribeReplies : TranscribeSettles(reply)

ScenesInvokeSettles == \E reply \in ScenesReplies : ScenesSettles(reply)

FramesStageSettles == \E reply \in FramesReplies : FramesInvokeSettles(reply)

\* the flow up to the start of the polling loop
NextPipeline ==
    \/ PipelineBegin
    \/ TranscribeInvokeSettles
    \/ ScenesInvokeSettles
    \/ FramesStageSettles
    \/ WaitReadSettles
    \/ WaitTimer
    \/ WaitReturns
    \/ CreateSettle
    \/ GenRespond
    \/ ClipsInvokeSettles

SpecPipeline == InitCreate /\ [][NextPipeline]_vars

\* ------------------------------- CreateVideoModal: the loops of one modal
OtherVars ==
    <<clips, provider, pass, prev, loop, now, gen, probe, frames, genf, wait, create, retry,
      recorder>>

\* if (pollingCleanupRef.current) pollingCleanupRef.current(): active = false
\* in the closure the ref holds; by and reporter name the caller
cleanupHeld(loops, ref, by, reporter) ==
    IF ref = NoProject
    THEN loops
    ELSE [loops EXCEPT ![ref] = IF @.active
                                THEN [@ EXCEPT !.active = FALSE, !.stoppedBy = by,
                                               !.reporter = reporter]
                                ELSE @]

\* what check-clips-status lets the awaited invoke settle with
PollOutcomes == {"error", "unsuccessful", "throw", "progress", "allDone"}

\* the Create Video button, enabled while isCreating is false
HandleCreateStarts ==
    /\ modal.mounted
    /\ modal.creating = NoProject
    /\ modal.created < NumProjects
    /\ modal' = [modal EXCEPT !.creating = modal.created + 1, !.created = @ + 1]
    /\ UNCHANGED OtherVars

\* a stage before the polling section throws
HandleCreateFails ==
    /\ modal.creating # NoProject
    /\ modal' = [modal EXCEPT !.creating = NoProject]
    /\ UNCHANGED OtherVars

\* variant: the loop held in pollingCleanupRef is not stopped first
HandleCreatePollingKeepsOld(allDoneAtOnce) ==
    /\ modal.creating # NoProject
    /\ LET p == modal.creating
       IN modal' =
            IF allDoneAtOnce
            THEN [modal EXCEPT !.creating = NoProject]
            ELSE [modal EXCEPT !.creating = NoProject,
                               !.ref = p,
                               !.loops = [modal.loops EXCEPT ![p] =
                                            [IdlePolling EXCEPT !.started = TRUE, !.active = TRUE,
                                                                !.inflight = 1]]]
    /\ UNCHANGED OtherVars

\* handleCreate after generate-clips answered: stop any existing polling,
\* then either all_complete or startPollingClipStatus with its first poll()
HandleCreatePolling(allDoneAtOnce) ==
    /\ modal.creating # NoProject
    /\ LET p == modal.creating
           stopped == cleanupHeld(modal.loops, modal.ref, "supersede", p)
       IN modal' =
            IF allDoneAtOnce
            THEN [modal EXCEPT !.creating = NoProject, !.loops = stopped]
            ELSE [modal EXCEPT !.creating = NoProject,
                               !.ref = p,
                               !.loops = [stopped EXCEPT ![p] =
                                            [IdlePolling EXCEPT !.started = TRUE, !.active = TRUE,
                                                                !.inflight = 1]]]
    /\ UNCHANGED OtherVars

\* the awaited invoke of loop p settles: error and unsuccessful data return,
\* data calls onProgress (the callback of handleCreate cleans up on allDone)
\* and schedules the next poll, a throw schedules it while active
PollSettles(p, outcome) ==
    /\ modal.loops[p].inflight > 0
    /\ LET l == modal.loops[p]
           settled == [modal.loops EXCEPT ![p].inflight = @ - 1]
           reported == [settled EXCEPT ![p].late = @ \/ ~l.active]
       IN modal' =
            IF outcome \in {"error", "unsuccessful"}
            THEN [modal EXCEPT !.loops = settled]
            ELSE IF outcome = "throw"
            THEN [modal EXCEPT !.loops = [settled EXCEPT ![p].timers = @ + (IF l.active THEN 1 ELSE 0)]]
            ELSE IF outcome = "allDone"
            THEN [modal EXCEPT !.loops = cleanupHeld(reported, modal.ref, "report", p),
                               !.ref = NoProject]
            ELSE [modal EXCEPT !.loops = [reported EXCEPT ![p].timers = @ + (IF l.active THEN 1 ELSE 0)]]
    /\ UNCHANGED OtherVars

\* variant: the timer is an interval that stays armed
PollTimerFiresRearmed(p) ==
    /\ modal.loops[p].timers > 0
    /\ modal.loops[p].inflight < 2
    /\ modal' = [modal EXCEPT !.loops[p].inflight = @ + (IF modal.loops[p].active THEN 1 ELSE 0)]
    /\ UNCHANGED OtherVars

\* setTimeout(poll, intervalMs) of loop p expires: poll() returns at once when
\* the loop is not active, otherwise it invokes check-clips-status
PollTimerFires(p) ==
    /\ modal.loops[p].timers > 0
    /\ modal' = [modal EXCEPT !.loops[p].timers = @ - 1,
                              !.loops[p].inflight = @ + (IF modal.loops[p].active THEN 1 ELSE 0)]
    /\ UNCHANGED OtherVars

\* the cleanup of the useEffect
Unmount ==
    /\ modal.mounted
    /\ modal' = [modal EXCEPT !.mounted = FALSE,
                              !.loops = cleanupHeld(modal.loops, modal.ref, "unmount", NoProject)]
    /\ UNCHANGED OtherVars

ClipsAnswered == \E allDoneAtOnce \in BOOLEAN : HandleCreatePolling(allDoneAtOnce)

PollInvokeSettles == \E p \in Projects, outcome \in PollOutcomes : PollSettles(p, outcome)

PollTimer == \E p \in Projects : PollTimerFires(p)

NextModal ==
    \/ HandleCreateStarts
    \/ HandleCreateFails
    \/ ClipsAnswered
    \/ PollInvokeSettles
    \/ PollTimer
    \/ Unmount

SpecModal == Init /\ [][NextModal]_vars

\* ------------------------------------------------------- AudioRecorder
NotRecorder ==
    <<clips, provider, pass, prev, loop, now, gen, probe, frames, genf, wait, create, retry,
      modal>>

\* stopRecording as created in a render where isRecording was isRecordingSeen
stopRecording(r, isRecordingSeen) ==
    IF r.media # "none" /\ isRecordingSeen
    THEN [r EXCEPT !.media = "stopping", !.isRecording = FALSE, !.timer = FALSE]
    ELSE r

\* the Record button: startRecording of the current render begins and awaits
\* getUserMedia
ClickRecord ==
    /\ recorder.mounted
    /\ ~recorder.audioUrl /\ ~recorder.isRecording /\ ~recorder.micPending
    /\ recorder.media \in {"none", "inactive"}
    /\ recorder' = [recorder EXCEPT !.micPending = TRUE, !.closure = recorder.isRecording]
    /\ UNCHANGED NotRecorder

\* getUserMedia settles: recorder started, duration 0, interval armed; or the
\* error toast
MicSettles(ok) ==
    /\ recorder.micPending
    /\ recorder' = IF ok
                   THEN [recorder EXCEPT !.micPending = FALSE, !.media = "recording",
                                         !.isRecording = TRUE, !.duration = 0,
                                         !.timer = TRUE, !.sawMax = FALSE]
                   ELSE [recorder EXCEPT !.micPending = FALSE]
    /\ UNCHANGED NotRecorder

\* the interval fires: the updater of setDuration
RecorderTick ==
    /\ recorder.timer
    /\ recorder' = IF recorder.duration >= recorder.maxDuration
                   THEN [stopRecording(recorder, recorder.closure) EXCEPT !.sawMax = TRUE]
                   ELSE [recorder EXCEPT !.duration = @ + 1]
    /\ UNCHANGED NotRecorder

\* the Stop button: stopRecording of the current render
ClickStop ==
    /\ recorder.mounted
    /\ ~recorder.audioUrl /\ recorder.isRecording
    /\ recorder' = stopRecording(recorder, recorder.isRecording)
    /\ UNCHANGED NotRecorder

\* mediaRecorder.onstop
MediaStopped ==
    /\ recorder.media = "stopping"
    /\ recorder' = [recorder EXCEPT !.media = "inactive", !.audioUrl = TRUE]
    /\ UNCHANGED NotRecorder

playAudio ==
    /\ recorder.mounted
    /\ recorder.audioUrl /\ ~recorder.isPlaying
    /\ recorder' = [recorder EXCEPT !.isPlaying = TRUE]
    /\ UNCHANGED NotRecorder

\* audio.onended
AudioEnded ==
    /\ recorder.isPlaying
    /\ recorder' = [recorder EXCEPT !.isPlaying = FALSE]
    /\ UNCHANGED NotRecorder

deleteRecording ==
    /\ recorder.mounted
    /\ recorder.audioUrl
    /\ recorder' = [recorder EXCEPT !.audioUrl = FALSE, !.duration = 0, !.isPlaying = FALSE]
    /\ UNCHANGED NotRecorder

\* the cleanup of the useEffect: clearInterval(timerRef.current)
RecorderUnmount ==
    /\ recorder.mounted
    /\ recorder' = [recorder EXCEPT !.mounted = FALSE, !.timer = FALSE]
    /\ UNCHANGED NotRecorder

MicAnswer == \E ok \in BOOLEAN : MicSettles(ok)

NextRecorder ==
    \/ ClickRecord
    \/ MicAnswer
    \/ RecorderTick
    \/ ClickStop
    \/ MediaStopped
    \/ playAudio
    \/ AudioEnded
    \/ deleteRecording
    \/ RecorderUnmount

\* the recorder is mounted with some maxDuration
InitRecorder ==
    /\ clips = EmptyMap
    /\ provider = [j \in Jobs |-> RespProcessing]
    /\ pass = [c \in Callers |-> IdlePass]
    /\ prev = NoResponse
    /\ loop = IdleLoop
    /\ now = 0
    /\ gen = IdleGen
    /\ probe = IdleProbe
    /\ frames = NullFrames
    /\ genf = IdleGenf
    /\ wait = IdleWait
    /\ create = IdleCreate
    /\ retry = IdleRetry
    /\ modal = IdleModal
    /\ \E maxDuration \in 1..MaxDuration :
          recorder = [IdleRecorder EXCEPT !.maxDuration = maxDuration]

SpecRecorder == InitRecorder /\ [][NextRecorder]_vars

\* ------------------------------------------- checkJobStatus called on its own
\* status values a getTaskStatus reply may carry; "cancelled" is not one the
\* function names, Undefined is a reply without a status field
ReplyStatuses == {"completed", "failed", "error", "processing", "pending", "cancelled", Undefined}

ProbeReplies ==
    {HttpResponse(ok, body) :
        ok \in BOOLEAN,
        body \in {<<>>} \cup
                 {<<TaskResult(st, v, o, e)>> :
                     st \in ReplyStatuses, v \in {Undefined, VideoUrl},
                     o \in {Undefined, OutputUrl}, e \in {Undefined, "render failed"}}}

InitProbe ==
    /\ clips = EmptyMap
    /\ provider = [j \in Jobs |-> RespProcessing]
    /\ pass = [c \in Callers |-> IdlePass]
    /\ prev = NoResponse
    /\ loop = IdleLoop
    /\ now = 0
    /\ gen = IdleGen
    /\ probe \in {[phase |-> "called", response |-> r, out |-> Thrown("none")] : r \in ProbeReplies}
    /\ frames = NullFrames
    /\ genf = IdleGenf
    /\ wait = IdleWait
    /\ create = IdleCreate
    /\ retry = IdleRetry
    /\ modal = IdleModal
    /\ recorder = IdleRecorder

\* the fetch of checkJobStatus settles and the function returns or throws
ProbeSettle ==
    /\ probe.phase = "called"
    /\ probe' = [probe EXCEPT !.phase = "done", !.out = checkJobStatus(probe.response)]
    /\ UNCHANGED <<clips, provider, pass, prev, loop, now, gen, frames, genf, wait, create, retry, modal, recorder>>

NextProbe == ProbeSettle

SpecProbe == InitProbe /\ [][NextProbe]_vars

\* ------------------------------------------------ generate-clips properties
\* the SDK's reply of unit k carries no handle: the call threw, the body is
\* empty, or neither taskUUID nor id is set
NoHandle(reply) ==
    \/ reply.threw
    \/ Len(reply.body) = 0
    \/ reply.body[1].taskUUID = NoId /\ reply.body[1].id = NoId

\* the URL the SDK's reply carries, if any
ReplyUrl(reply) ==
    IF Truthy(reply.body[1].videoURL) THEN reply.body[1].videoURL ELSE reply.body[1].outputURL

Succeeded == {k \in gen.units : gen.out[k] # NoSubmit /\ ~NoHandle(gen.sdk[k])}

Threw == {k \in gen.units : gen.out[k] # NoSubmit /\ NoHandle(gen.sdk[k])}

GenOk == gen.pc = "done" /\ gen.resp.success

\* C13: a submission that throws does not abort the batch: the result list
\* has exactly one entry per frames entry and each entry carries its own
\* flag, success with the handle or failure with an error.
C13_FailureIsolated ==
    /\ gen.pc = "submitting" => DOMAIN gen.out = gen.units
    /\ \A k \in Threw :
          ~gen.out[k].success /\ gen.out[k].error # Undefined /\ gen.out[k].taskUUID = NoId
    /\ \A k \in Succeeded :
          gen.out[k].success /\ gen.out[k].taskUUID = k /\ gen.out[k].error = Undefined
    /\ GenOk =>
          /\ DOMAIN gen.resp.results = gen.units
          /\ gen.resp.results = gen.out
          /\ Threw \cup Succeeded = gen.units

\* one submission threw and another one of the same batch returned a handle
C13_Witness == GenOk /\ Threw # {} /\ Succeeded # {}

\* C14: the success response counts every unit once and the reported total is
\* the number of units submitted, completed + pending + failed.
C14_TotalIsAllUnits ==
    GenOk =>
        /\ gen.resp.completed = Cardinality({k \in Succeeded : Truthy(ReplyUrl(gen.sdk[k]))})
        /\ gen.resp.pending = Cardinality({k \in Succeeded : ~Truthy(ReplyUrl(gen.sdk[k]))})
        /\ gen.resp.failed = Cardinality(Threw)
        /\ gen.resp.total_clips = Cardinality(gen.units)
        /\ gen.resp.total_clips = gen.resp.completed + gen.resp.pending + gen.resp.failed

\* C15: the persisted map holds exactly the handles of the units whose
\* submission succeeded, with the URL or "pending"; a unit without a handle is
\* not in the map and is in the result list with success false.
C15_MapHoldsSuccessfulHandles ==
    GenOk =>
        /\ DOMAIN clips = Succeeded
        /\ \A k \in Succeeded :
              clips[k] = IF Truthy(ReplyUrl(gen.sdk[k])) THEN ReplyUrl(gen.sdk[k]) ELSE Pending
        /\ \A k \in Threw : k \notin DOMAIN clips /\ ~gen.resp.results[k].success

\* a failed unit is left out of a map that has a pending handle
C15_Witness ==
    /\ GenOk
    /\ \E k \in Threw : k \notin DOMAIN clips
    /\ \E j \in DOMAIN clips : clips[j] = Pending

\* C16: once Runware.initialize succeeded, disconnect is called exactly once
\* on every exit path, and only after every submission completed or failed.
C16_DisconnectOnce ==
    /\ (gen.connected /\ gen.pc = "done") => gen.disconnects = 1
    /\ gen.pc = "submitting" => gen.connected /\ gen.disconnects = 0
    /\ gen.disconnects > 0 => \A k \in gen.units : gen.out[k] # NoSubmit
    /\ ~gen.connected => gen.disconnects = 0

\* the store update failed after a batch of two and the SDK was disconnected
C16_Witness ==
    /\ gen.pc = "done" /\ gen.connected /\ gen.storeError = "update"
    /\ gen.disconnects = 1 /\ Cardinality(gen.units) >= 2

FailureEnvelope(resp) == ~resp.success /\ resp.httpStatus = 400 /\ resp.error # Undefined

\* C17: a request with missing input fails before any provider call and any
\* store write: generate-clips without project_id, frames or scenes never
\* initializes or submits; check-clips-status without project_id or with an
\* empty clips map never calls checkJobStatus; both return the failure envelope.
C17_FailFast ==
    /\ (gen.pc = "done" /\ (~gen.input.hasProjectId \/ ~gen.input.framesPresent
                              \/ ~gen.input.scenesPresent)) =>
          /\ gen.inits = 0 /\ gen.submits = 0 /\ gen.writes = 0
          /\ FailureEnvelope(gen.resp)
    /\ (P.pc = "done" /\ (~P.hasProjectId \/ P.readEmpty)) =>
          /\ \A j \in DOMAIN P.calls : P.calls[j] = 0
          /\ DOMAIN P.res = {}
          /\ P.writes = 0
          /\ FailureEnvelope(P.resp)

\* the project was read, its frames column is null and its scenes are set
C17_Witness ==
    /\ gen.pc = "done"
    /\ gen.input.hasProjectId /\ ~gen.input.framesPresent /\ gen.input.scenesPresent
    /\ gen.storeError = "none"

\* C18: a request whose store read or store update fails returns the failure
\* envelope, and no step of it changes the persisted map.
C18_StoreErrorFails ==
    [][/\ (gen'.pc = "done" /\ gen.pc # "done" /\ gen'.storeError # "none") =>
             FailureEnvelope(gen'.resp) /\ clips' = clips
       /\ (P'.pc = "done" /\ P.pc # "done" /\ P'.storeError # "none") =>
             FailureEnvelope(P'.resp) /\ clips' = clips
       /\ (gen'.pc = "submitting" \/ P'.pc = "probing") => clips' = clips]_vars

\* the update of generate-clips failed; the map it built is not the stored one
C18_Witness ==
    /\ gen.pc = "done" /\ gen.storeError = "update"
    /\ gen.clips # clips

\* units whose submission returned a handle together with a URL
FastPath == {k \in Succeeded : Truthy(ReplyUrl(gen.sdk[k]))}

\* C19: a job completed inside the submission call is stored with its URL and
\* no later check-clips-status pass probes it; when every unit completed that
\* way and none failed, the response says all_complete and the client starts
\* no polling loop.
C19_FastPathNeverPolled ==
    GenOk =>
        /\ \A k \in FastPath :
              /\ k \in DOMAIN clips /\ clips[k] = ReplyUrl(gen.sdk[k])
              /\ k \in DOMAIN P.calls => P.calls[k] = 0
        /\ FastPath = gen.units =>
              /\ gen.resp.all_complete
              /\ loop.phase = "idle" /\ ~loop.active
              /\ P.pc = "idle"

\* a polling pass probed the pending sibling of a fast-path job
C19_Witness ==
    /\ GenOk /\ loop.phase = "inflight" /\ P.pc = "done"
    /\ \E k \in FastPath : k \in DOMAIN P.calls /\ P.calls[k] = 0
    /\ \E j \in DOMAIN P.calls : P.calls[j] = 1

\* status values the claim counts as recognized
RecognizedStatuses == {"completed", "failed", "error", "processing", "pending"}

\* C20: checkJobStatus throws whenever the response is not OK, is empty or
\* malformed, or carries a status that is not a recognized one.
C20_UnrecognizedStatusThrows ==
    (/\ probe.phase = "done"
     /\ \/ ~probe.response.ok
        \/ Len(probe.response.body) = 0
        \/ probe.response.body[1].status \notin RecognizedStatuses)
    => probe.out.threw

\* -------------------------------------------- generate-frames properties
\* C27: generate-frames answers success only if both frames of every scene
\* were generated, uploaded and written to the frames column; a frame that
\* failed at generation, download or upload makes the answer a 400 failure.
C27_SuccessMeansAllFrames ==
    genf.pc = "done" =>
        /\ genf.resp.success =>
              \A k \in genf.scenes :
                  /\ k \in DOMAIN frames.entries
                  /\ Truthy(frames.entries[k].first_frame)
                  /\ Truthy(frames.entries[k].last_frame)
        /\ (\E i \in 1..Len(genf.jobs) :
                genf.jobs[i].status = "failed" \/ genf.jobs[i].upload = "threw")
              => ~genf.resp.success /\ genf.resp.httpStatus = 400

\* ------------------------------------- more check-clips-status properties
\* C21: for a well-formed reply checkJobStatus returns exactly one of
\* completed with the URL, failed with a reason, or pending; a completed
\* result always carries a URL.
C21_CompletedCarriesUrl ==
    (probe.phase = "done" /\ probe.response.ok /\ Len(probe.response.body) > 0) =>
        /\ ~probe.out.threw
        /\ \/ /\ probe.out.status = "completed"
              /\ IsUrl(probe.out.videoUrl) /\ probe.out.error = Undefined
           \/ /\ probe.out.status = "failed"
              /\ probe.out.error # Undefined /\ probe.out.videoUrl = Undefined
           \/ /\ probe.out.status = "pending"
              /\ probe.out.error = Undefined /\ probe.out.videoUrl = Undefined

\* C22: in the response every job counted as completed has its URL in the
\* returned map, pending is the number of "pending" entries of that map and
\* failed the number of "failed" entries.
C22_CountsMatchMap ==
    (Merged("a") /\ P.resp.success) =>
        /\ P.resp.completed = Cardinality({j \in DOMAIN P.resp.clips : IsUrl(P.resp.clips[j])})
        /\ P.resp.pending = Cardinality({j \in DOMAIN P.resp.clips : P.resp.clips[j] = Pending})
        /\ P.resp.failed = Cardinality({j \in DOMAIN P.resp.clips : P.resp.clips[j] = Failed})

\* C23: in the per-job detail alreadyProcessed is true exactly for the jobs
\* whose value in the map read by the call was a URL or "failed", and false
\* for every job probed in the call, whether the probe returned or threw.
C23_AlreadyProcessedExact ==
    Merged("a") =>
        \A j \in DOMAIN P.res :
            /\ P.res[j].alreadyProcessed <=> IsTerminal(P.snap[j])
            /\ P.calls[j] = 1 => ~P.res[j].alreadyProcessed
            /\ P.calls[j] = 0 => P.res[j].alreadyProcessed

\* one job was skipped, one probe returned and one probe threw (or, with two
\* jobs, one was skipped and the probe of the other threw)
C23_Witness ==
    /\ Merged("a")
    /\ \E j, k \in DOMAIN P.res :
         /\ P.res[j].alreadyProcessed /\ P.calls[j] = 0
         /\ P.res[k].status = "error" /\ P.calls[k] = 1 /\ ~P.res[k].alreadyProcessed

\* C24: the map a pass returns and, when it writes, persists has exactly the
\* keys of the map the pass read.
C24_KeySetKept ==
    [][(P'.pc = "done" /\ P.pc = "probing") =>
          /\ DOMAIN P'.updated = DOMAIN P.snap
          /\ P'.resp.success => DOMAIN P'.resp.clips = DOMAIN P.snap
          /\ DOMAIN clips' = DOMAIN P.snap]_vars

\* a pass wrote a map that keeps a job still pending next to a new URL
C24_Witness ==
    /\ Merged("a") /\ P.writes = 1 /\ P.resp.success
    /\ \E j, k \in DOMAIN clips :
         /\ clips[j] = Pending /\ P.snap[j] = Pending
         /\ IsUrl(clips[k]) /\ P.snap[k] = Pending

\* C25: a handle present in the persisted map is never removed by a later
\* operation; its entry is only ever superseded by a terminal value.
C25_HandleNeverRemoved ==
    [][\A j \in DOMAIN clips :
          /\ j \in DOMAIN clips'
          /\ clips'[j] = clips[j] \/ IsTerminal(clips'[j])]_vars

\* C26: the merged map and the write decision of a pass are a function of the
\* map read and of the outcome of each status check, whatever the order in
\* which the checks settled.
C26_OrderIndependent ==
    Merged("a") =>
        /\ P.updated =
             [j \in DOMAIN P.snap |->
                IF IsTerminal(P.snap[j]) THEN P.snap[j] ELSE SpecValue(P.res[j])]
        /\ P.writes =
             IF \E j \in DOMAIN P.snap : ~IsTerminal(P.snap[j]) /\ SpecValue(P.res[j]) # Pending
             THEN 1 ELSE 0

\* the check of the later entry settled first and only the one that settled
\* second brought a terminal value
C26_Witness ==
    /\ Merged("a") /\ P.writes = 1
    /\ \E j, k \in DOMAIN P.res :
         /\ j < k /\ P.res[j].seq = 2 /\ P.res[k].seq = 1
         /\ SpecValue(P.res[j]) # Pending /\ SpecValue(P.res[k]) = Pending

\* ----------------------------------------------------- client properties
\* a row with a frames object of as many entries as scenes, at least one,
\* each with both frame URLs
RowReady(row) ==
    /\ ~row.error
    /\ row.frames.present
    /\ LET n == Cardinality(DOMAIN row.frames.entries)
       IN /\ n >= 1
          /\ n = (IF row.scenesPresent THEN Cardinality(row.sceneKeys) ELSE 0)
    /\ \A k \in DOMAIN row.frames.entries :
          row.frames.entries[k].first_frame # "" /\ row.frames.entries[k].last_frame # ""

\* C29: waitForFrames makes at most maxAttempts store reads; it returns true
\* as soon as a read shows the frames ready and false after maxAttempts reads
\* otherwise; a read error uses up one attempt and does not end the wait.
C29_WaitBounded ==
    /\ wait.reads <= wait.maxAttempts
    /\ wait.pc = "done" => (wait.result <=> RowReady(wait.last))
    /\ (wait.pc = "done" /\ ~wait.result) => wait.reads = wait.maxAttempts
    /\ wait.pc = "sleeping" => ~RowReady(wait.last) /\ wait.reads = wait.attempt
    /\ (wait.pc = "reading" /\ wait.reads > 0) => ~RowReady(wait.last)
    /\ (wait.pc = "reading" /\ wait.last.error) => wait.reads = wait.attempt - 1

\* a read failed, the wait went on and the last allowed read found the frames
C29_Witness ==
    /\ wait.pc = "done" /\ wait.result
    /\ wait.reads = wait.maxAttempts /\ wait.maxAttempts >= 2

\* C30: retryWithBackoff calls fn at most maxRetries times, returns the value
\* of the first successful call without calling fn again, and when all
\* maxRetries calls fail it throws the error of the last call.
C30_RetryBounded ==
    LET n == Len(retry.log)
    IN /\ retry.calls = n
       /\ n <= retry.maxRetries
       /\ \A i \in 1..n : retry.log[i].ok => i = n /\ retry.pc = "returned"
       /\ retry.pc = "returned" => n >= 1 /\ retry.log[n].ok /\ retry.out = retry.log[n].v
       /\ retry.pc = "thrown" =>
             /\ n = retry.maxRetries
             /\ n >= 1 => ~retry.log[n].ok /\ retry.lastError = retry.log[n].v

\* every call failed, the last one with another error than the first
C30_Witness ==
    /\ retry.pc = "thrown"
    /\ Len(retry.log) = retry.maxRetries
    /\ Len(retry.log) >= 2
    /\ retry.log[1].v # retry.log[Len(retry.log)].v

Stages ==
    <<"transcribe-audio", "transcript-to-scenes", "generate-frames", "waitForFrames",
      "generate-clips">>

IsPrefix(s, t) == Len(s) <= Len(t) /\ \A i \in 1..Len(s) : s[i] = t[i]

\* stage i answered without error; generate-frames also with success true
StageOk(i, reply) ==
    /\ reply.transport = "ok"
    /\ reply.httpStatus = 200
    /\ i = 3 => reply.body /\ reply.success

PollingStarted == loop.phase # "idle" \/ loop.active \/ pass["a"].pc # "idle"

\* C28: handleCreate starts its stages in the order transcribe-audio,
\* transcript-to-scenes, generate-frames, waitForFrames, generate-clips,
\* polling; generate-clips only after generate-frames reported success and
\* waitForFrames returned true; after a failed stage or a timed-out wait no
\* later stage is started and no polling loop runs.
C28_StagesInOrder ==
    LET n == Len(create.invoked)
        r == Len(create.replies)
    IN /\ IsPrefix(create.invoked, Stages)
       /\ r <= n /\ r <= 3
       /\ \A i \in 1..r : ~StageOk(i, create.replies[i]) => n = i /\ create.pc = "failed"
       /\ n >= 4 <=> wait.pc # "idle"
       /\ n >= 4 => r = 3
       /\ n = 5 <=> gen.pc # "idle"
       /\ n = 5 => wait.pc = "done" /\ wait.result /\ StageOk(3, create.replies[3])
       /\ (wait.pc = "done" /\ ~wait.result /\ create.pc # "wait") => create.pc = "failed"
       /\ create.pc = "failed" => gen.pc = "idle" /\ ~PollingStarted
       /\ PollingStarted => n = 5 /\ gen.pc = "done" /\ gen.resp.httpStatus = 200
       /\ loop.last = "clipsError" => ~PollingStarted

\* every stage succeeded, the wait needed more than one read, polling runs
C28_Witness ==
    /\ Len(create.invoked) = 5
    /\ wait.reads >= 2
    /\ loop.phase = "inflight"

\* the calls of fn that failed so far
FailedCalls == Cardinality({i \in 1..Len(retry.log) : ~retry.log[i].ok})

\* C31: the first wait of retryWithBackoff is baseDelayMs and every later wait
\* is twice the one before, so the wait after failed attempt k is
\* baseDelayMs * 2^k; there is one wait per failed attempt except the final
\* one, after which the error is thrown without waiting.
C31_BackoffDoubles ==
    LET d == retry.delays
    IN /\ Len(d) >= 1 => d[1] = retry.baseDelayMs
       /\ \A k \in 1..Len(d) - 1 : d[k + 1] = 2 * d[k]
       /\ retry.pc = "sleeping" => Len(d) = FailedCalls /\ FailedCalls < retry.maxRetries
       /\ retry.pc = "calling" => Len(d) = FailedCalls
       /\ (retry.pc = "thrown" /\ retry.maxRetries >= 1) =>
             FailedCalls = retry.maxRetries /\ Len(d) = retry.maxRetries - 1

\* all calls failed with a non-zero base delay and at least two waits were made
C31_Witness ==
    /\ retry.pc = "thrown"
    /\ retry.baseDelayMs > 0
    /\ Len(retry.delays) >= 2

\* ------------------------------------------------------- modal properties
Uncancelled == {p \in Projects : modal.loops[p].started /\ modal.loops[p].active}

\* C32: a polling loop is stopped only by its own all-done report, by its
\* cancel function called for a new project, or by the unmount; the report of
\* another project's loop never stops it.
C32_OnlyOwnReportStops ==
    \A p \in Projects :
        modal.loops[p].stoppedBy = "report" => modal.loops[p].reporter = p

\* C33: once the cancel function of a loop has been called, its onProgress
\* callback is not called again.
C33_NoProgressAfterCancel ==
    \A p \in Projects : ~modal.loops[p].late

C34_UnmountCancels ==
    (modal.mounted /\ ~modal'.mounted) => \A p \in Projects : ~modal'.loops[p].active

\* C34: one modal has at most one uncancelled polling loop, the one held in
\* pollingCleanupRef; starting polling for a new project cancels the held
\* loop first and unmounting cancels the current one.
C34_OneLoopUncancelled ==
    /\ [](Cardinality(Uncancelled) <= 1 /\ \A p \in Uncancelled : modal.ref = p)
    /\ [][C34_UnmountCancels]_vars

\* the second project's loop runs and the first one was cancelled for it
C34_Witness ==
    /\ modal.loops[1].started /\ ~modal.loops[1].active
    /\ modal.loops[1].stoppedBy = "supersede" /\ modal.loops[1].reporter = 2
    /\ modal.loops[2].active

\* C35: a polling loop never has more than one invocation in flight or timer
\* pending, and never one of each.
C35_OneSuccessor ==
    \A p \in Projects : modal.loops[p].inflight + modal.loops[p].timers <= 1

\* a timer of the second loop is pending while the cancelled first loop still
\* awaits its invocation
C35_Witness ==
    /\ modal.loops[2].timers = 1 /\ modal.loops[2].active
    /\ modal.loops[1].inflight = 1 /\ ~modal.loops[1].active

\* C36: the duration counter never exceeds maxDuration, and once the interval
\* has found the duration at maxDuration the recording is stopped without any
\* user action: media recorder stopped, isRecording false, timer cleared.
C36_AutoStopAtMax ==
    /\ recorder.duration <= recorder.maxDuration
    /\ recorder.sawMax =>
          /\ recorder.media # "recording"
          /\ ~recorder.isRecording
          /\ ~recorder.timer

====
